---- MODULE Spec2Model ----
(***************************************************************************)
(* Model of the two gettext utilities of transfer-chinese:                 *)
(*   - the fill tool (src/index.js, "translate-po.js"), which translates   *)
(*     the untranslated entries of a .po catalog through the Baidu API     *)
(*     with a JSON cache and bounded retries;                              *)
(*   - the extraction tool (src/unnamed/part_000, "test.js"), which        *)
(*     flattens the translated entries of .po catalogs into a JSON map.    *)
(*                                                                         *)
(* A JavaScript string is a sequence of one-character strings, so that     *)
(* join, split, trim and includes are computed and not assumed.  A JSON    *)
(* object (the cache, the extraction mapping) is a function whose domain   *)
(* is the set of its keys.  A parsed catalog (po.translations) is the      *)
(* sequence of its entries in the order the nested loops visit them, each  *)
(* entry a record [msgid, msgstr] with msgstr an array of strings.  No     *)
(* tool reads the name of a context, so it is not kept: two entries of a   *)
(* catalog with the same msgid are entries of different contexts.          *)
(***************************************************************************)
EXTENDS Integers, Sequences, FiniteSets, TLC

\* ------------------------------------------------------------------ bounds

\* Most entries in the catalog the fill tool reads.
MaxEntries == 2
\* Most runs of the fill tool (process starts) in one behaviour.
MaxRuns == 2
\* Most files in the directory the extraction tool walks.
MaxFiles == 2
\* Most entries in all the files of that directory together.
MaxExtEntries == 2
\* Most runs of the extraction tool in one behaviour.
MaxExtRuns == 2

\* ------------------------------------------------------- program constants

RETRY_LIMIT == 3
RETRY_DELAY_BASE == 1000
REQUEST_DELAY == 1000

\* ----------------------------------------------------------------- strings

NL == "\n"
SP == " "
EmptyStr == <<>>
EmptyMap == <<>>

\* String.prototype.trim removes leading and trailing white space.
IsWhite(c) == c \in {SP, NL}

RECURSIVE TrimStart(_)
TrimStart(s) ==
    IF s # <<>> /\ IsWhite(Head(s)) THEN TrimStart(Tail(s)) ELSE s

RECURSIVE TrimEnd(_)
TrimEnd(s) ==
    IF s # <<>> /\ IsWhite(s[Len(s)]) THEN TrimEnd(SubSeq(s, 1, Len(s) - 1)) ELSE s

trim(s) == TrimEnd(TrimStart(s))

\* Array.prototype.join(sep): the elements with sep between them.
RECURSIVE join(_, _)
join(arr, sep) ==
    IF arr = <<>> THEN EmptyStr
    ELSE IF Len(arr) = 1 THEN arr[1]
    ELSE arr[1] \o sep \o join(Tail(arr), sep)

\* String.prototype.split(c) for a one-character separator: always at least
\* one piece ("".split(c) is [""]).
RECURSIVE split(_, _)
split(s, c) ==
    IF \A i \in 1..Len(s) : s[i] # c THEN <<s>>
    ELSE LET k == CHOOSE i \in 1..Len(s) : s[i] = c /\ \A j \in 1..(i - 1) : s[j] # c
         IN  <<SubSeq(s, 1, k - 1)>> \o split(SubSeq(s, k + 1, Len(s)), c)

includes(s, c) == \E i \in 1..Len(s) : s[i] = c

\* Truthiness of a JavaScript string: every string but "".
Truthy(s) == s # EmptyStr

\* ---------------------------------------------------- the fill tool: inputs

\* Source texts of the input catalog: the header's empty msgid, a one-line
\* text and a text with an embedded newline.
MsgIds == {EmptyStr, <<"A">>, <<"A", NL, "B">>}

\* msgstr arrays of the input catalog: untranslated (msgstr ""), blank, and
\* translated.
FillMsgStrs == {<<EmptyStr>>, <<<<SP>>>>, <<<<"Z">>>>}

FillEntries == [msgid : MsgIds, msgstr : FillMsgStrs]

SeqsUpTo(S, n) == UNION {[1..m -> S] : m \in 0..n}

\* The catalogs the parser can return, as the loops of main() visit them.
FillCatalogs == SeqsUpTo(FillEntries, MaxEntries)

\* The cache file at the first start: missing, not parsable, or a JSON object.
JsonFile(m) == [exists |-> TRUE, valid |-> TRUE, data |-> m]
AbsentFile == [exists |-> FALSE, valid |-> FALSE, data |-> EmptyMap]
CorruptFile == [exists |-> TRUE, valid |-> FALSE, data |-> EmptyMap]
InitialCacheFiles == {AbsentFile, CorruptFile, JsonFile(<<"A">> :> <<"P">>)}

\* What one request to the provider can end in: a transport error (axios
\* rejects), a response without trans_result, or a response whose
\* trans_result holds these dst segments.
Segments == { <<<<"X">>, <<"Y", SP>>>>, <<<<SP>>>> }
Outcomes == {[kind |-> "error", segs |-> <<>>], [kind |-> "malformed", segs |-> <<>>]}
            \cup {[kind |-> "ok", segs |-> g] : g \in Segments}

\* ----------------------------------------------------- the fill tool: state

VARIABLES
    env,         \* process.env: which credentials are set
    cacheFile,   \* CACHE_FILE on disk
    inputFile,   \* INPUT_PO_FILE on disk, parsed
    outputFile,  \* OUTPUT_PO_FILE on disk: <<>> while absent, else <<catalog>>
    pc,          \* where the process is
    run,         \* number of the current process start
    exitCode,    \* -1 while running, else the exit status
    cache,       \* the module-level cache object
    po,          \* the parsed catalog main() mutates
    idx,         \* position of main()'s loops in po
    call,        \* the frame of the translateText call in progress
    lastCall,    \* the frame of the translateText call that has just returned
    ops,         \* what this run has touched so far
    answered,    \* texts the provider has answered well-formed, over all runs
    waited       \* ms slept since the last provider request of this run ended,
                 \* counted up to REQUEST_DELAY; -1 before the first request

fillVars == <<env, cacheFile, inputFile, outputFile, pc, run, exitCode, cache, po,
              idx, call, lastCall, ops, answered, waited>>

\* ------------------------------------------------ the extraction tool: state

VARIABLES
    argv,        \* process.argv from index 2 on: <<po_path>> or <<>>
    disk,        \* what po_path names on disk
    outFile,     \* the output JSON file: <<>> while absent, else <<mapping>>
    outDir,      \* whether the output file's directory exists
    xpc,         \* where the extraction process is
    xrun,        \* number of the current extraction run
    xexit,       \* -1 while running, else the exit status
    xerror,      \* the uncaught error that ended the run, <<>> when none
    files,       \* the directory listing being walked
    fileIdx,     \* position in files
    allTranslations,  \* the mapping processPoPath accumulates
    results      \* the mapping written by each completed run, in order

extVars == <<argv, disk, outFile, outDir, xpc, xrun, xexit, xerror, files, fileIdx,
             allTranslations, results>>

vars == <<fillVars, extVars>>

NoCall == [text |-> EmptyStr, attempt |-> 0, reqs |-> 0, provFails |-> 0,
           delays |-> <<>>, inCache |-> FALSE, cachedVal |-> EmptyStr,
           wrote |-> FALSE, known |-> FALSE, returned |-> FALSE, value |-> EmptyStr]

NoOps == [cacheRead |-> FALSE, corruptAtLoad |-> FALSE, inputRead |-> FALSE,
          requested |-> FALSE, cacheWritten |-> FALSE, fallbacks |-> {},
          outputWrites |-> 0]

\* --------------------------------------------------- the fill tool: helpers

\* The test `if (cache[text])`: the key is present and its value is truthy.
CacheHit(c, text) == text \in DOMAIN c /\ Truthy(c[text])

\* cache[text] = translatedText
CachePut(c, text, value) == (text :> value) @@ c

\* response.data.trans_result.map(item => item.dst).join('\n').trim()
TranslatedText(segs) == trim(join(segs, NL))

\* A backoff whose exponent is off by one.
BackoffDelayOffByOne(attempt) == RETRY_DELAY_BASE * 2 ^ attempt

\* RETRY_DELAY_BASE * Math.pow(2, attempt - 1)
BackoffDelay(attempt) == RETRY_DELAY_BASE * 2 ^ (attempt - 1)

\* A test that takes every entry with a msgstr array for untranslated.
NeedsTranslationAny(entry) == Len(entry.msgstr) > 0

\* !translation.msgstr || translation.msgstr.join('').trim() === ''
\* (msgstr is always an array in a parsed catalog).
NeedsTranslation(entry) == trim(join(entry.msgstr, EmptyStr)) = EmptyStr

\* A write-back that stores one msgstr element per translated line.
WriteBackPerLine(originalText, translatedText) ==
    IF includes(originalText, NL) THEN split(translatedText, NL) ELSE <<translatedText>>

\* The msgstr main() assigns from the text translateText returned.
WriteBack(originalText, translatedText) ==
    IF includes(originalText, NL)
    THEN <<join(split(translatedText, NL), NL)>>
    ELSE <<translatedText>>

\* translateText returns `value` to main(), which stores it in the entry and
\* then awaits sleep(REQUEST_DELAY).
ReturnToMain(frame, value) ==
    /\ po' = [po EXCEPT ![idx].msgstr = WriteBack(po[idx].msgid, value)]
    /\ lastCall' = [frame EXCEPT !.returned = TRUE, !.value = value]
    /\ call' = NoCall
    /\ pc' = "sleep"

\* if (attempt === retries): the failed attempt was the last one.
Exhausted(frame) == frame.attempt = RETRY_LIMIT

\* A sleep that is not awaited: no time passes before the caller goes on.
WaitedAfterNoWait(w, ms) == w

\* await sleep(ms): the time since the last request grows by ms.
WaitedAfter(w, ms) ==
    IF w < 0 THEN w
    ELSE IF w + ms > REQUEST_DELAY THEN REQUEST_DELAY ELSE w + ms

\* A catch block that rethrows after the last attempt: main() logs the error
\* and ends without writing the output catalog.
CatchFailureThrows(frame) ==
    IF Exhausted(frame)
    THEN /\ call' = NoCall
         /\ pc' = "done"
         /\ UNCHANGED <<po, lastCall>>
    ELSE /\ call' = [frame EXCEPT !.delays = Append(@, BackoffDelay(frame.attempt))]
         /\ pc' = "backoff"
         /\ UNCHANGED <<po, lastCall>>

\* The catch block of translateText after failed attempt frame.attempt.
CatchFailure(frame) ==
    IF Exhausted(frame)
    THEN ReturnToMain(frame, frame.text)
    ELSE /\ call' = [frame EXCEPT !.delays = Append(@, BackoffDelay(frame.attempt))]
         /\ pc' = "backoff"
         /\ UNCHANGED <<po, lastCall>>

\* --------------------------------------------------- the fill tool: actions

FillInit ==
    /\ env \in [appId : BOOLEAN, secretKey : BOOLEAN]
    /\ cacheFile \in InitialCacheFiles
    /\ inputFile \in FillCatalogs
    /\ outputFile = <<>>
    /\ pc = "start"
    /\ run = 1
    /\ exitCode = -1
    /\ cache = EmptyMap
    /\ po = <<>>
    /\ idx = 0
    /\ call = NoCall
    /\ lastCall = NoCall
    /\ ops = NoOps
    /\ answered = {}
    /\ waited = -1

\* A check that needs both credentials to be absent.
CredentialsBothMissing(e) == ~e.appId /\ ~e.secretKey

\* if (!BAIDU_APP_ID || !BAIDU_SECRET_KEY) { ...; process.exit(1); }
CredentialsMissing(e) == ~e.appId \/ ~e.secretKey

CheckCredentials ==
    /\ pc = "start"
    /\ IF CredentialsMissing(env)
       THEN pc' = "exited" /\ exitCode' = 1
       ELSE pc' = "load" /\ UNCHANGED exitCode
    /\ UNCHANGED <<env, cacheFile, inputFile, outputFile, run, cache, po, idx, call,
                   lastCall, ops, answered, waited>>
    /\ UNCHANGED extVars

\* The cache object after the start-up load of CACHE_FILE.
LoadedCache(file) == IF file.exists /\ file.valid THEN file.data ELSE EmptyMap

\* A load without the try/catch: a cache file that does not parse ends the run.
LoadCacheFatal ==
    /\ pc = "load"
    /\ IF cacheFile.exists /\ ~cacheFile.valid
       THEN pc' = "exited" /\ exitCode' = 1 /\ UNCHANGED cache
       ELSE pc' = "read" /\ cache' = LoadedCache(cacheFile) /\ UNCHANGED exitCode
    /\ ops' = [ops EXCEPT !.cacheRead = cacheFile.exists,
                          !.corruptAtLoad = cacheFile.exists /\ ~cacheFile.valid]
    /\ UNCHANGED <<env, cacheFile, inputFile, outputFile, run, po, idx, call,
                   lastCall, answered, waited>>
    /\ UNCHANGED extVars

\* The try/catch around fs.readFileSync and JSON.parse at start-up.
LoadCache ==
    /\ pc = "load"
    /\ cache' = LoadedCache(cacheFile)
    /\ ops' = [ops EXCEPT !.cacheRead = cacheFile.exists,
                          !.corruptAtLoad = cacheFile.exists /\ ~cacheFile.valid]
    /\ pc' = "read"
    /\ UNCHANGED <<env, cacheFile, inputFile, outputFile, run, exitCode, po, idx, call,
                   lastCall, answered, waited>>
    /\ UNCHANGED extVars

\* main(): fs.readFileSync(INPUT_PO_FILE) and gettextParser.po.parse.
ReadInput ==
    /\ pc = "read"
    /\ po' = inputFile
    /\ idx' = 1
    /\ ops' = [ops EXCEPT !.inputRead = TRUE]
    /\ pc' = "loop"
    /\ UNCHANGED <<env, cacheFile, inputFile, outputFile, run, exitCode, cache, call,
                   lastCall, answered, waited>>
    /\ UNCHANGED extVars

AtEntry == pc = "loop" /\ idx \in 1..Len(po)

\* A loop that does not pass over the header entry.
IsHeaderNever(entry) == FALSE

\* if (msgid === '') continue;  in main()
IsHeader(entry) == entry.msgid = EmptyStr

SkipHeader ==
    /\ AtEntry
    /\ IsHeader(po[idx])
    /\ idx' = idx + 1
    /\ UNCHANGED <<env, cacheFile, inputFile, outputFile, pc, run, exitCode, cache, po,
                   call, lastCall, ops, answered, waited>>
    /\ UNCHANGED extVars

SkipTranslated ==
    /\ AtEntry
    /\ ~IsHeader(po[idx])
    /\ ~NeedsTranslation(po[idx])
    /\ idx' = idx + 1
    /\ UNCHANGED <<env, cacheFile, inputFile, outputFile, pc, run, exitCode, cache, po,
                   call, lastCall, ops, answered, waited>>
    /\ UNCHANGED extVars

\* The frame of translateText(text) on entry.
NewCall(text) ==
    [NoCall EXCEPT !.text = text,
                   !.inCache = text \in DOMAIN cache,
                   !.cachedVal = IF text \in DOMAIN cache THEN cache[text] ELSE EmptyStr,
                   !.known = text \in answered]

\* translateText finds the text in the cache and returns at once.
TranslateCached ==
    /\ AtEntry
    /\ ~IsHeader(po[idx])
    /\ NeedsTranslation(po[idx])
    /\ CacheHit(cache, po[idx].msgid)
    /\ ReturnToMain(NewCall(po[idx].msgid), cache[po[idx].msgid])
    /\ UNCHANGED <<env, cacheFile, inputFile, outputFile, run, exitCode, cache, idx, ops,
                   answered, waited>>
    /\ UNCHANGED extVars

\* translateText misses the cache and posts the first request.
TranslateStart ==
    /\ AtEntry
    /\ ~IsHeader(po[idx])
    /\ NeedsTranslation(po[idx])
    /\ ~CacheHit(cache, po[idx].msgid)
    /\ call' = [NewCall(po[idx].msgid) EXCEPT !.attempt = 1]
    /\ pc' = "request"
    /\ UNCHANGED <<env, cacheFile, inputFile, outputFile, run, exitCode, cache, po, idx,
                   lastCall, ops, answered, waited>>
    /\ UNCHANGED extVars

\* The request of this attempt fails: axios rejects, or the response has no
\* trans_result.
RequestFails ==
    /\ pc = "request"
    /\ \E o \in {x \in Outcomes : x.kind # "ok"} :
          CatchFailure([call EXCEPT !.reqs = @ + 1, !.provFails = @ + 1])
    /\ ops' = [ops EXCEPT !.requested = TRUE,
                          !.fallbacks = IF Exhausted(call) THEN @ \cup {idx} ELSE @]
    /\ waited' = 0
    /\ UNCHANGED <<env, cacheFile, inputFile, outputFile, run, exitCode, cache, idx,
                   answered>>
    /\ UNCHANGED extVars

\* The request is answered with trans_result; the cache takes the text and
\* saveCache rewrites CACHE_FILE.
RequestSucceeds ==
    /\ pc = "request"
    /\ \E o \in {x \in Outcomes : x.kind = "ok"} :
          /\ cache' = CachePut(cache, call.text, TranslatedText(o.segs))
          /\ cacheFile' = JsonFile(cache')
          /\ ReturnToMain([call EXCEPT !.reqs = @ + 1, !.wrote = TRUE],
                          TranslatedText(o.segs))
    /\ answered' = answered \cup {call.text}
    /\ ops' = [ops EXCEPT !.requested = TRUE, !.cacheWritten = TRUE]
    /\ waited' = 0
    /\ UNCHANGED <<env, inputFile, outputFile, run, exitCode, idx>>
    /\ UNCHANGED extVars

\* The request is answered with trans_result, but fs.writeFileSync throws in
\* saveCache: the catch block takes it for a failed attempt.
SaveCacheFails ==
    /\ pc = "request"
    /\ \E o \in {x \in Outcomes : x.kind = "ok"} :
          /\ cache' = CachePut(cache, call.text, TranslatedText(o.segs))
          /\ CatchFailure([call EXCEPT !.reqs = @ + 1])
    /\ answered' = answered \cup {call.text}
    /\ ops' = [ops EXCEPT !.requested = TRUE,
                          !.fallbacks = IF Exhausted(call) THEN @ \cup {idx} ELSE @]
    /\ waited' = 0
    /\ UNCHANGED <<env, cacheFile, inputFile, outputFile, run, exitCode, idx>>
    /\ UNCHANGED extVars

\* await sleep(delay) ends and the for loop starts the next attempt.
BackoffDone ==
    /\ pc = "backoff"
    /\ call' = [call EXCEPT !.attempt = @ + 1]
    /\ pc' = "request"
    /\ waited' = WaitedAfter(waited, call.delays[Len(call.delays)])
    /\ UNCHANGED <<env, cacheFile, inputFile, outputFile, run, exitCode, cache, po, idx,
                   lastCall, ops, answered>>
    /\ UNCHANGED extVars

\* await sleep(REQUEST_DELAY) ends and the loop goes to the next entry.
SleepDone ==
    /\ pc = "sleep"
    /\ idx' = idx + 1
    /\ pc' = "loop"
    /\ lastCall' = NoCall
    /\ waited' = WaitedAfter(waited, REQUEST_DELAY)
    /\ UNCHANGED <<env, cacheFile, inputFile, outputFile, run, exitCode, cache, po, call,
                   ops, answered>>
    /\ UNCHANGED extVars

\* After the last entry: gettextParser.po.compile and fs.writeFileSync.
WriteOutput ==
    /\ pc = "loop"
    /\ idx > Len(po)
    /\ outputFile' = <<po>>
    /\ ops' = [ops EXCEPT !.outputWrites = @ + 1]
    /\ pc' = "done"
    /\ exitCode' = 0
    /\ UNCHANGED <<env, cacheFile, inputFile, run, cache, po, idx, call, lastCall,
                   answered, waited>>
    /\ UNCHANGED extVars

\* The operator kills the process while it waits (there is no cancellation);
\* what the process held in memory is gone.
Interrupt ==
    /\ pc \in {"request", "backoff", "sleep"}
    /\ pc' = "killed"
    /\ exitCode' = 130
    /\ cache' = EmptyMap
    /\ po' = <<>>
    /\ idx' = 0
    /\ call' = NoCall
    /\ lastCall' = NoCall
    /\ waited' = -1
    /\ UNCHANGED <<env, cacheFile, inputFile, outputFile, run, ops, answered>>
    /\ UNCHANGED extVars

\* The tool is started again: a new process.  The cache file and the input
\* catalog are as the last process left them; the operator has moved the last
\* output catalog away (the tool never reads OUTPUT_PO_FILE).
Restart ==
    /\ pc \in {"done", "killed", "exited"}
    /\ run < MaxRuns
    /\ run' = run + 1
    /\ pc' = "start"
    /\ exitCode' = -1
    /\ cache' = EmptyMap
    /\ po' = <<>>
    /\ idx' = 0
    /\ call' = NoCall
    /\ lastCall' = NoCall
    /\ ops' = NoOps
    /\ outputFile' = <<>>
    /\ waited' = -1
    /\ UNCHANGED <<env, cacheFile, inputFile, answered>>
    /\ UNCHANGED extVars

\* --------------------------------------------- the extraction tool: inputs

ExtMsgIds == {EmptyStr, <<"A">>, <<"B">>}

\* msgstr arrays: no element, untranslated, untranslated plural forms, one
\* line, two lines.
ExtMsgStrs == {<<>>, <<EmptyStr>>, <<EmptyStr, EmptyStr>>, <<<<"Z">>>>, <<<<"Z">>, <<"W">>>>}

ExtEntries == [msgid : ExtMsgIds, msgstr : ExtMsgStrs]

\* A file of the directory: its extension and, for a .po file, its parsed
\* content.
PoFile(es) == [ext |-> ".po", catalog |-> es]
OtherFile == [ext |-> ".txt", catalog |-> <<>>]

\* A directory is laid out by one number per file: -1 for a file without the
\* .po extension, else the number of entries of the .po file.  The layouts of
\* at most MaxFiles files that hold n entries together:
RECURSIVE LayoutEntries(_)
LayoutEntries(l) ==
    IF l = <<>> THEN 0
    ELSE (IF Head(l) < 0 THEN 0 ELSE Head(l)) + LayoutEntries(Tail(l))

Layouts(n) == {l \in SeqsUpTo(-1..n, MaxFiles) : LayoutEntries(l) = n}

\* The listing fs.readdirSync returns for layout l over the entries es.
RECURSIVE Listing(_, _)
Listing(es, l) ==
    IF l = <<>> THEN <<>>
    ELSE IF Head(l) < 0 THEN <<OtherFile>> \o Listing(es, Tail(l))
    ELSE <<PoFile(SubSeq(es, 1, Head(l)))>>
         \o Listing(SubSeq(es, Head(l) + 1, Len(es)), Tail(l))

\* What po_path names: nothing, a directory, a regular file, or something
\* that is neither (a socket, a device).
MissingPath == [kind |-> "missing", files |-> <<>>]
OtherPath == [kind |-> "other", files |-> <<>>]
FilePath(es) == [kind |-> "file", files |-> <<PoFile(es)>>]
DirPath(es, l) == [kind |-> "dir", files |-> Listing(es, l)]

\* Values of po_path and path.extname of each.
Paths == {"in.po", "in"}
extname(path) == IF path = "in.po" THEN ".po" ELSE ""

\* The command lines: no argument; a path with or without the .po extension
\* that names a file, something else or nothing; a directory "in".
IsExtInput(a, d) ==
    \/ a = <<>> /\ d = MissingPath
    \/ \E p \in Paths : a = <<p>> /\ d \in {MissingPath, OtherPath}
    \/ \E p \in Paths, es \in SeqsUpTo(ExtEntries, MaxExtEntries) :
          a = <<p>> /\ d = FilePath(es)
    \/ \E n \in 0..MaxExtEntries :
          \E es \in [1..n -> ExtEntries], l \in Layouts(n) :
             a = <<"in">> /\ d = DirPath(es, l)

\* The output file before the first run: absent, or left by an earlier use.
InitialOutFiles == {<<>>, <<(<<"A">> :> <<"Q">>) @@ (<<"C">> :> <<"Q">>)>>}

\* -------------------------------------------- the extraction tool: helpers

\* Object.assign(target, source): the keys of source overwrite.
ObjectAssign(target, source) ==
    [k \in DOMAIN target \cup DOMAIN source |->
        IF k \in DOMAIN source THEN source[k] ELSE target[k]]

\* english, from translation.msgid (a string in a parsed catalog).
English(entry) == entry.msgid

\* chinese: the msgstr lines joined with a newline, '' without msgstr.
Chinese(entry) == IF Len(entry.msgstr) > 0 THEN join(entry.msgstr, NL) ELSE EmptyStr

\* if (english && chinese)
IsPair(english, chinese) == Truthy(english) /\ Truthy(chinese)

\* if (msgid === '') continue;  in extractTranslations
IsHeaderEntry(entry) == entry.msgid = EmptyStr

\* The loops of extractTranslations over the entries from position i on.
RECURSIVE ExtractFrom(_, _, _)
ExtractFrom(es, i, translations) ==
    IF i > Len(es) THEN translations
    ELSE IF IsHeaderEntry(es[i]) THEN ExtractFrom(es, i + 1, translations)
    ELSE IF IsPair(English(es[i]), Chinese(es[i]))
         THEN ExtractFrom(es, i + 1, CachePut(translations, English(es[i]), Chinese(es[i])))
         ELSE ExtractFrom(es, i + 1, translations)

extractTranslations(file) == ExtractFrom(file.catalog, 1, EmptyMap)

\* An accumulator that starts from the mapping of the existing output file.
StaleMapping(previous) == IF previous = <<>> THEN EmptyMap ELSE previous[1]

\* const allTranslations = {} at the start of processPoPath; nothing of the
\* last output is taken over.
FreshMapping(previous) == EmptyMap

\* -------------------------------------------- the extraction tool: actions

ExtInit ==
    /\ IsExtInput(argv, disk)
    /\ outFile \in InitialOutFiles
    /\ outDir = (outFile # <<>>)
    /\ xpc = "start"
    /\ xrun = 1
    /\ xexit = -1
    /\ xerror = <<>>
    /\ files = <<>>
    /\ fileIdx = 0
    /\ allTranslations = EmptyMap
    /\ results = <<>>

\* if (process.argv.length < 3) { usage; process.exit(1); }
Usage ==
    /\ xpc = "start"
    /\ argv = <<>>
    /\ xpc' = "exited"
    /\ xexit' = 1
    /\ UNCHANGED <<argv, disk, outFile, outDir, xrun, xerror, files, fileIdx,
                   allTranslations, results>>
    /\ UNCHANGED fillVars

\* A test of the path that forgets the extension of a single file.
InvalidPathAnyFile(d, path) == d.kind \notin {"dir", "file"}

\* The else branch of processPoPath: neither a directory nor a .po file.
InvalidPath(d, path) ==
    /\ d.kind # "dir"
    /\ ~(d.kind = "file" /\ extname(path) = ".po")

\* processPoPath throws (fs.statSync on a missing path, or the invalid-path
\* error); nothing catches it and the process ends.
PathFails ==
    /\ xpc = "start"
    /\ argv # <<>>
    /\ InvalidPath(disk, argv[1])
    /\ xerror' = <<[name |-> IF disk.kind = "missing" THEN "ENOENT" ELSE "Error",
                    path |-> argv[1]]>>
    /\ xpc' = "failed"
    /\ xexit' = 1
    /\ UNCHANGED <<argv, disk, outFile, outDir, xrun, files, fileIdx, allTranslations,
                   results>>
    /\ UNCHANGED fillVars

\* processPoPath starts on a directory or on a single .po file.
StartWalk ==
    /\ xpc = "start"
    /\ argv # <<>>
    /\ ~InvalidPath(disk, argv[1])
    /\ allTranslations' = FreshMapping(outFile)
    /\ files' = disk.files
    /\ fileIdx' = 1
    /\ xpc' = "walk"
    /\ UNCHANGED <<argv, disk, outFile, outDir, xrun, xexit, xerror, results>>
    /\ UNCHANGED fillVars

\* if (path.extname(file) === '.po'); a single file was checked by the caller.
IsPoFile(file) == file.ext = ".po"

\* One file: extractTranslations and Object.assign.
ProcessFile ==
    /\ xpc = "walk"
    /\ fileIdx \in 1..Len(files)
    /\ IsPoFile(files[fileIdx])
    /\ allTranslations' = ObjectAssign(allTranslations, extractTranslations(files[fileIdx]))
    /\ fileIdx' = fileIdx + 1
    /\ UNCHANGED <<argv, disk, outFile, outDir, xpc, xrun, xexit, xerror, files, results>>
    /\ UNCHANGED fillVars

\* A directory entry without the .po extension is passed over.
SkipFile ==
    /\ xpc = "walk"
    /\ fileIdx \in 1..Len(files)
    /\ ~IsPoFile(files[fileIdx])
    /\ fileIdx' = fileIdx + 1
    /\ UNCHANGED <<argv, disk, outFile, outDir, xpc, xrun, xexit, xerror, files,
                   allTranslations, results>>
    /\ UNCHANGED fillVars

\* The main program after processPoPath: mkdirSync when the directory is
\* missing, then writeFileSync of the mapping.
WriteJson ==
    /\ xpc = "walk"
    /\ fileIdx > Len(files)
    /\ outDir' = TRUE
    /\ outFile' = <<allTranslations>>
    /\ results' = Append(results, allTranslations)
    /\ xpc' = "done"
    /\ xexit' = 0
    /\ UNCHANGED <<argv, disk, xrun, xerror, files, fileIdx, allTranslations>>
    /\ UNCHANGED fillVars

\* The tool is run again on the same input.
Rerun ==
    /\ xpc \in {"done", "failed", "exited"}
    /\ xrun < MaxExtRuns
    /\ xrun' = xrun + 1
    /\ xpc' = "start"
    /\ xexit' = -1
    /\ xerror' = <<>>
    /\ files' = <<>>
    /\ fileIdx' = 0
    /\ allTranslations' = EmptyMap
    /\ UNCHANGED <<argv, disk, outFile, outDir, results>>
    /\ UNCHANGED fillVars

\* ------------------------------------------------------------ specifications

FillIdle ==
    /\ env = [appId |-> FALSE, secretKey |-> FALSE]
    /\ cacheFile = AbsentFile /\ inputFile = <<>> /\ outputFile = <<>>
    /\ pc = "idle" /\ run = 0 /\ exitCode = -1 /\ cache = EmptyMap /\ po = <<>>
    /\ idx = 0 /\ call = NoCall /\ lastCall = NoCall /\ ops = NoOps /\ answered = {}
    /\ waited = -1

ExtIdle ==
    /\ argv = <<>> /\ disk = [kind |-> "missing", files |-> <<>>]
    /\ outFile = <<>> /\ outDir = FALSE /\ xpc = "idle" /\ xrun = 0 /\ xexit = -1
    /\ xerror = <<>> /\ files = <<>> /\ fileIdx = 0 /\ allTranslations = EmptyMap
    /\ results = <<>>

FillNext ==
    \/ CheckCredentials
    \/ LoadCache
    \/ ReadInput
    \/ SkipHeader
    \/ SkipTranslated
    \/ TranslateCached
    \/ TranslateStart
    \/ RequestFails
    \/ RequestSucceeds
    \/ SaveCacheFails
    \/ BackoffDone
    \/ SleepDone
    \/ WriteOutput
    \/ Interrupt
    \/ Restart

ExtNext ==
    \/ Usage
    \/ PathFails
    \/ StartWalk
    \/ ProcessFile
    \/ SkipFile
    \/ WriteJson
    \/ Rerun

\* The fill tool alone.
FillOnlyInit == FillInit /\ ExtIdle

FillSpec == FillOnlyInit /\ [][FillNext]_vars

\* The extraction tool alone.
ExtractInit == ExtInit /\ FillIdle

ExtractSpec == ExtractInit /\ [][ExtNext]_vars

\* One of the two tools is run.
Init == FillOnlyInit \/ ExtractInit

Next == FillNext \/ ExtNext

Spec == Init /\ [][Next]_vars

\* -------------------------------------------------------------------- claims

\* The translateText call that has just returned to main().
Returned == pc = "sleep" /\ lastCall.returned

\* C1: when the cache holds an entry for the text at the call, whatever its
\* value, translateText issues no provider request, does not write the cache
\* file and returns the cached value.
C1_CacheHitShortCircuits ==
    /\ (pc \in {"request", "backoff"}) => ~call.inCache
    /\ (Returned /\ lastCall.inCache) =>
          /\ lastCall.reqs = 0
          /\ ~lastCall.wrote
          /\ lastCall.value = lastCall.cachedVal

\* C2: a call for a text not in the cache, every request of which the
\* provider failed, has made exactly RETRY_LIMIT requests, has waited
\* 1000 ms and 2000 ms (base * 2^(k-1) after failed attempt k < RETRY_LIMIT,
\* nothing after the last) and returns the text unchanged.
C2_AlwaysFailingProvider ==
    (Returned /\ ~lastCall.inCache /\ lastCall.reqs > 0
              /\ lastCall.provFails = lastCall.reqs) =>
       /\ lastCall.reqs = RETRY_LIMIT
       /\ lastCall.delays = <<1000, 2000>>
       /\ lastCall.delays = [k \in 1..(RETRY_LIMIT - 1) |-> RETRY_DELAY_BASE * 2 ^ (k - 1)]
       /\ lastCall.value = lastCall.text

C2_Witness ==
    /\ Returned
    /\ ~lastCall.inCache
    /\ lastCall.provFails = RETRY_LIMIT
    /\ lastCall.reqs = RETRY_LIMIT
    /\ lastCall.value = <<"A", NL, "B">>

\* C3: once the provider has answered a text well-formed, in this run or an
\* earlier one, no later translateText call for that text issues a request.
C3_NeverRequeries == (pc = "request") => ~call.known

\* C4 as claimed: after the write-back the msgstr of an entry whose source
\* holds a newline has one element per line of the translated text, and that
\* of a one-line source is the single translated string.
C4_OneElementPerLine ==
    Returned =>
       po[idx].msgstr = IF includes(po[idx].msgid, NL)
                        THEN split(lastCall.value, NL)
                        ELSE <<lastCall.value>>

\* C4 as amended: after the write-back the msgstr of the entry is one
\* element, the whole translated text with its newlines kept, whether or not
\* the source holds a newline.
C4_WholeTextOneElement == Returned => po[idx].msgstr = <<lastCall.value>>

C4_Witness ==
    /\ Returned
    /\ po[idx].msgid = <<"A", NL, "B">>
    /\ lastCall.value = <<"X", NL, "Y">>
    /\ Len(po[idx].msgstr) = 1

\* C5: the entry with the empty msgid is skipped in every context: the
\* extraction mapping never has the empty string as a key, and the fill
\* workflow never calls translateText for it and never changes its msgstr.
C5_HeaderSkipped ==
    /\ EmptyStr \notin DOMAIN allTranslations
    /\ \A i \in 1..Len(results) : EmptyStr \notin DOMAIN results[i]
    /\ (pc \in {"request", "backoff"}) => call.text # EmptyStr
    /\ Returned => lastCall.text # EmptyStr
    /\ \A i \in 1..Len(po) :
          (po[i].msgid = EmptyStr) => po[i].msgstr = inputFile[i].msgstr
    /\ (outputFile # <<>>) =>
          \A i \in 1..Len(outputFile[1]) :
             (outputFile[1][i].msgid = EmptyStr) =>
                outputFile[1][i].msgstr = inputFile[i].msgstr

\* An untranslated header entry that follows an entry the run has translated
\* has been passed by the loop and the catalog written.
C5_Witness ==
    /\ pc = "done"
    /\ Len(outputFile[1]) = 2
    /\ outputFile[1][2].msgid = EmptyStr
    /\ outputFile[1][2].msgstr = <<EmptyStr>>
    /\ outputFile[1][1].msgstr # inputFile[1].msgstr

\* The entries the extraction reads: position <<f, e>> is entry e of .po file f.
PoPositions ==
    {p \in UNION {{<<f, e>> : e \in 1..Len(disk.files[f].catalog)} :
                     f \in 1..Len(disk.files)} :
        disk.files[p[1]].ext = ".po"}
EntryAt(p) == disk.files[p[1]].catalog[p[2]]

\* An entry has a translated value when some msgstr line is not empty.
HasTranslation(entry) == \E i \in 1..Len(entry.msgstr) : entry.msgstr[i] # EmptyStr

\* C6: the mapping holds only pairs of a non-empty source and a non-empty
\* translation: every pair comes from an entry with a translated value, so an
\* entry all of whose msgstr lines are empty (also several plural forms)
\* never appears.
C6_OnlyTranslatedEntries ==
    (xpc \in {"walk", "done"}) =>
       \A k \in DOMAIN allTranslations :
          /\ k # EmptyStr
          /\ allTranslations[k] # EmptyStr
          /\ \E p \in PoPositions :
                /\ EntryAt(p).msgid = k
                /\ HasTranslation(EntryAt(p))
                /\ Chinese(EntryAt(p)) = allTranslations[k]

\* The positions of the translated entries for source text k, and the last.
TranslatedAt(k) ==
    {p \in PoPositions : EntryAt(p).msgid = k /\ HasTranslation(EntryAt(p))}
Precedes(p, q) == p[1] < q[1] \/ (p[1] = q[1] /\ p[2] < q[2])
LastOf(S) == CHOOSE p \in S : \A q \in S : q = p \/ Precedes(q, p)

\* Source text k occurs at most once in each catalog.
OncePerCatalog(k) ==
    \A p, q \in PoPositions :
       (EntryAt(p).msgid = k /\ EntryAt(q).msgid = k /\ p[1] = q[1]) => p = q

\* C7: for a source text translated in one or more catalogs, the written
\* mapping holds the translation of the catalog processed last among them; a
\* later catalog where its translation is empty neither removes nor blanks it.
C7_LastTranslationWins ==
    (xpc = "done") =>
       \A k \in ExtMsgIds \ {EmptyStr} :
          (OncePerCatalog(k) /\ TranslatedAt(k) # {}) =>
             /\ k \in DOMAIN outFile[1]
             /\ outFile[1][k] = Chinese(EntryAt(LastOf(TranslatedAt(k))))

\* C8: two runs on the same catalogs write identical mappings, and the
\* mapping a run writes holds nothing but pairs of the catalogs it read,
\* whatever the output file held before.
C8_ExtractionIdempotent ==
    /\ \A i, j \in 1..Len(results) : results[i] = results[j]
    /\ \A i \in 1..Len(results) :
          \A k \in DOMAIN results[i] :
             \E p \in PoPositions :
                EntryAt(p).msgid = k /\ Chinese(EntryAt(p)) = results[i][k]

\* Two runs have written, the second over the output file of the first.
C8_Witness ==
    /\ xpc = "done"
    /\ Len(results) = 2
    /\ DOMAIN results[2] = {<<"A">>, <<"B">>}
    /\ Len(disk.files) = 2

\* C9: when a credential is absent the fill tool exits with status 1 having
\* read neither the cache file nor the input catalog, issued no request and
\* written neither the cache file nor the output catalog.
C9_MissingCredentialsFailFast ==
    (pc # "idle" /\ (~env.appId \/ ~env.secretKey)) =>
       /\ pc \in {"start", "exited"}
       /\ (pc = "exited") => exitCode = 1
       /\ ops = NoOps
       /\ outputFile = <<>>
       /\ cache = EmptyMap
       /\ po = <<>>

C9_Witness ==
    /\ pc = "exited"
    /\ exitCode = 1
    /\ env.appId
    /\ ~env.secretKey
    /\ cacheFile.exists
    /\ inputFile # <<>>

\* C10: when po_path names neither a directory nor a file with the .po
\* extension, the run ends in an error naming the path, with a non-zero
\* status, no output file written and no output directory created.
C10_InvalidPathFails ==
    (xpc \notin {"idle", "start"} /\ argv # <<>> /\ disk.kind # "dir"
        /\ ~(disk.kind = "file" /\ argv[1] = "in.po")) =>
       /\ xpc = "failed"
       /\ xexit = 1
       /\ Len(xerror) = 1 /\ xerror[1].path = argv[1]
       /\ results = <<>>
       /\ outDir = (outFile # <<>>)
       /\ allTranslations = EmptyMap

C10_Witness ==
    /\ xpc = "failed"
    /\ disk.kind = "file"
    /\ argv = <<"in">>
    /\ Len(disk.files[1].catalog) > 0
    /\ outFile = <<>>
    /\ ~outDir

\* C11: wherever a provider request is about to be issued, and wherever the
\* workflow waits between two entries after translate has returned, the
\* content of the cache file (what a load of it yields) equals the in-memory
\* cache.
C11_WriteThrough ==
    pc \in {"request", "sleep"} => LoadedCache(cacheFile) = cache

\* An entry whose msgstr holds a character that trimming keeps.
HasText(entry) ==
    \E i \in 1..Len(entry.msgstr) :
       \E j \in 1..Len(entry.msgstr[i]) : ~IsWhite(entry.msgstr[i][j])

\* C12: an entry whose msgstr is not blank is never the entry of a translate
\* call, keeps its msgstr in the parsed catalog throughout the run, and has
\* the same msgstr in the output catalog.
C12_TranslatedEntriesUntouched ==
    /\ (pc \in {"request", "backoff", "sleep"}) => ~HasText(inputFile[idx])
    /\ \A i \in 1..Len(po) : HasText(inputFile[i]) => po[i] = inputFile[i]
    /\ (pc = "done") =>
          /\ Len(outputFile) = 1
          /\ Len(outputFile[1]) = Len(inputFile)
          /\ \A i \in 1..Len(inputFile) :
                HasText(inputFile[i]) => outputFile[1][i] = inputFile[i]

C12_Witness ==
    /\ pc = "done"
    /\ Len(inputFile) = 2
    /\ HasText(inputFile[1])
    /\ inputFile[1].msgid = inputFile[2].msgid
    /\ outputFile[1][2].msgstr # inputFile[2].msgstr
    /\ ops.requested
    /\ ops.cacheWritten

\* C13: the output catalog is written at most once in a run and only at its
\* end; an interrupted run has written no output catalog, and every text the
\* provider answered before the interruption is a key of the cache file.
C13_OutputOnceCachePersisted ==
    /\ ops.outputWrites = (IF pc = "done" THEN 1 ELSE 0)
    /\ (pc = "killed") => outputFile = <<>>
    /\ (pc = "killed" /\ run = 1) => answered \subseteq DOMAIN LoadedCache(cacheFile)

\* C14: a call of translate never issues more than RETRY_LIMIT requests, no
\* request follows a well-formed response of the same call, and a call that
\* got a well-formed response returns the joined and trimmed text it put in
\* the cache.
C14_FirstAnswerEnds ==
    /\ call.reqs <= RETRY_LIMIT /\ lastCall.reqs <= RETRY_LIMIT
    /\ (pc \in {"request", "backoff"}) => call.reqs = call.provFails
    /\ (Returned /\ lastCall.reqs > lastCall.provFails) =>
          /\ lastCall.reqs = lastCall.provFails + 1
          /\ lastCall.value = cache[lastCall.text]

\* C15: when translate is called for an entry after a provider request of an
\* earlier entry, REQUEST_DELAY ms have passed since that request, and a call
\* of translate starts only when the one before it has returned and the
\* sleep after it is over.
C15_DelayBetweenEntries ==
    /\ (pc = "loop" /\ ops.requested) => waited >= REQUEST_DELAY
    /\ (pc = "request" /\ call.attempt = 1 /\ waited >= 0) => waited >= REQUEST_DELAY
    /\ (pc \in {"request", "backoff"}) => ~lastCall.returned
    /\ Returned => call = NoCall

C15_Witness ==
    /\ pc = "request"
    /\ call.attempt = 1
    /\ idx = 2
    /\ waited = REQUEST_DELAY
    /\ run = 1
    /\ ops.cacheWritten
    /\ po[1].msgid \in DOMAIN cache
    /\ po[1].msgstr = <<cache[po[1].msgid]>>

\* C16: a run that found a cache file that does not parse does not exit with
\* an error, starts from the empty cache, leaves the file as it is until a
\* translation is saved, and the file then holds only texts the provider
\* has answered.
C16_CorruptCacheNonFatal ==
    ops.corruptAtLoad =>
       /\ pc # "exited" /\ exitCode # 1
       /\ (pc \notin {"killed", "done"} /\ ~ops.requested) => cache = EmptyMap
       /\ IF ops.cacheWritten
          THEN /\ cacheFile.exists /\ cacheFile.valid
               /\ DOMAIN cacheFile.data \subseteq answered
               /\ (pc # "killed") => DOMAIN cacheFile.data \subseteq DOMAIN cache
          ELSE cacheFile = CorruptFile

C16_Witness ==
    /\ ops.corruptAtLoad
    /\ pc = "done"
    /\ ops.cacheWritten
    /\ cacheFile.valid
    /\ cacheFile.data # EmptyMap
    /\ outputFile # <<>>

\* translate has returned from the catch block of its last attempt.
ExhaustedReturn == Returned /\ lastCall.attempt = RETRY_LIMIT /\ ~lastCall.wrote

\* C17: a call of translate that used up its attempts returns the source text
\* and leaves the cache as it found it: the text is a key of the in-memory
\* cache and of the cache file only if it was one before the call, with the
\* value it had.
C17_FallbackNotMemoized ==
    ExhaustedReturn =>
       /\ lastCall.value = lastCall.text
       /\ (lastCall.text \in DOMAIN cache) = lastCall.inCache
       /\ lastCall.inCache => cache[lastCall.text] = lastCall.cachedVal
       /\ (lastCall.text \in DOMAIN LoadedCache(cacheFile)) => lastCall.inCache

\* C18: an entry whose translate call fell back to the source text has that
\* text as its one msgstr element, in the parsed catalog and in the output
\* catalog, and the run goes on to the next entry and writes the output.
C18_FallbackWrittenBack ==
    /\ ExhaustedReturn =>
          /\ idx \in ops.fallbacks
          /\ po[idx].msgstr = <<inputFile[idx].msgid>>
    /\ \A i \in ops.fallbacks : i <= Len(po) => po[i].msgstr = <<inputFile[i].msgid>>
    /\ (pc = "done") =>
          /\ Len(outputFile) = 1
          /\ exitCode = 0
          /\ \A i \in ops.fallbacks : outputFile[1][i].msgstr = <<inputFile[i].msgid>>

C18_Witness ==
    /\ pc = "done"
    /\ ops.fallbacks = {1}
    /\ Len(inputFile) = 2
    /\ includes(inputFile[1].msgid, NL)
    /\ outputFile[1][1].msgstr = <<inputFile[1].msgid>>
    /\ outputFile[1][2].msgstr \notin {inputFile[2].msgstr, <<inputFile[2].msgid>>}

\* Every key of c is a key of d, with the same value where that of c is not
\* empty.
Grows(c, d) ==
    \A k \in DOMAIN c : k \in DOMAIN d /\ (c[k] # EmptyStr => d[k] = c[k])

\* C19: no step removes a key from the cache or changes a non-empty value of
\* it: not in a cache file that parses, and not in the in-memory cache of a
\* running process.
C19_CacheOnlyGrows ==
    [][/\ (cacheFile.exists /\ cacheFile.valid) =>
             /\ cacheFile'.exists /\ cacheFile'.valid
             /\ Grows(cacheFile.data, cacheFile'.data)
       /\ (pc' \notin {"killed", "start"}) => Grows(cache, cache')]_vars

====
